---- MODULE Spec2Model ----
(***************************************************************************)
(* A model of learn2fly's genetic-algorithm engine                         *)
(* (libs/genetic-algorithm/src/lib.rs) and of its feed-forward network     *)
(* (libs/neural-network/src/lib.rs).                                       *)
(*                                                                         *)
(* Numbers.  Genes, weights and fitness values are f32 in the source.      *)
(* Here a gene is an integer numerator over the denominator RngStates, so  *)
(* that coeff * U, with U = u / RngStates the value rng.gen::<f32>()       *)
(* yields in [0, 1), is the integer coeff * u.  Fitness values, weights,   *)
(* biases and network inputs are small integers.  f32 rounding is not      *)
(* modelled.                                                               *)
(*                                                                         *)
(* The generator.  `rng: &mut dyn RngCore` is the caller's generator.  It  *)
(* is a record [s, n]: s is the generator's internal state, advanced by a  *)
(* linear congruence on every value drawn, and n counts the values drawn   *)
(* from it so far.                                                         *)
(***************************************************************************)
EXTENDS Integers, Sequences, FiniteSets

\* ------------------------------------------------------------- bounds
RngStates == 16     \* internal states of a generator
MaxPop == 2         \* largest population
MaxLen == 2         \* longest chromosome
MaxGen == 2         \* generations the driver runs
MaxLayers == 2      \* most layers of a network (topology length - 1)
MaxWidth == 2       \* most neurons of a layer, and longest input vector

VARIABLES
    population,     \* GA driver: the current population, a sequence of individuals
    rng,            \* GA driver: the generator handed to evolve
    mutation,       \* GeneticAlgorithm.mutation_method: [chance, coeff]
    gen,            \* GA driver: generations produced so far
    status,         \* "running", or "panicked" once a call has panicked
    last,           \* the latest evolve call: its arguments and what it produced
    rerun,          \* the result of calling evolve again on last's arguments
    op,             \* the latest direct call of a strategy method
    network,        \* the Network built by Network::new
    thread_rng,     \* rand::thread_rng(), the thread's ambient generator
    netcall         \* the latest Network::prop call

vars == <<population, rng, mutation, gen, status, last, rerun, op, network,
          thread_rng, netcall>>

gaVars == <<population, rng, mutation, gen, status, last, rerun>>
netVars == <<network, thread_rng, netcall>>

Min(a, b) == IF a < b THEN a ELSE b

\* The element of a singleton set.  Only({F(x) : x \in {e}}) is F(e) with e
\* computed once, as a `let x = e;` of the source computes it.
Only(S) == CHOOSE x \in S : TRUE

\* ---------------------------------------------------------- generator
Seeds == [s : 0 .. RngStates - 1, n : {0}]

RngNext(s) == (5 * s + 3) % RngStates

\* RngCore::next_u64 / next_u32: the generator after one draw; the value drawn
\* is the new state's s, one of 0 .. RngStates - 1.
next_u(r) == [s |-> RngNext(r.s), n |-> r.n + 1]

\* A probability is a pair <<num, den>>.
Half == <<1, 2>>

\* Rng::gen_bool(p): Bernoulli sampling.  p = 1 answers true without drawing;
\* any other p draws one value v and answers v < p * 2^64.
gen_bool(r, p) ==
    IF p[1] = p[2]
    THEN [rng |-> r, val |-> TRUE]
    ELSE Only({[rng |-> q, val |-> q.s * p[2] < p[1] * RngStates] :
               q \in {next_u(r)}})

\* Rng::gen::<f32>(): one draw, a value in [0, 1) as a numerator over RngStates.
gen_f32(r) == Only({[rng |-> q, val |-> q.s] : q \in {next_u(r)}})

\* --------------------------------------------------------- chromosomes
\* UniformCrossover::crossover: zip the parents (zip stops at the shorter one)
\* and take, per position, parent_a's gene when gen_bool(0.5), else parent_b's.
RECURSIVE crossover_iter(_, _, _, _, _)
crossover_iter(r, parent_a, parent_b, i, acc) ==
    IF i > Min(Len(parent_a), Len(parent_b))
    THEN [rng |-> r, genes |-> acc]
    ELSE Only({crossover_iter(c.rng, parent_a, parent_b, i + 1,
                              Append(acc, IF c.val THEN parent_a[i] ELSE parent_b[i])) :
               c \in {gen_bool(r, Half)}})

\* Mutant of crossover: a blending crossover, the child's gene is the sum of the
\* parents' genes at its position.
crossover_blend(r, parent_a, parent_b) ==
    Only({[rng |-> c.rng,
           genes |-> [i \in 1 .. Len(c.genes) |-> parent_a[i] + parent_b[i]]] :
          c \in {crossover_iter(r, parent_a, parent_b, 1, <<>>)}})

\* Mutant of crossover: the child loses its last gene.
crossover_short(r, parent_a, parent_b) ==
    Only({[rng |-> c.rng,
           genes |-> IF c.genes = <<>> THEN <<>>
                     ELSE SubSeq(c.genes, 1, Len(c.genes) - 1)] :
          c \in {crossover_iter(r, parent_a, parent_b, 1, <<>>)}})

crossover(r, parent_a, parent_b) == crossover_iter(r, parent_a, parent_b, 1, <<>>)

\* The gene after `*gene += sign * self.coeff * rng.gen::<f32>()`, sign being -1
\* when the sign's gen_bool(0.5) answered true.
add_noise(negative, m, gene, r) ==
    Only({[rng |-> u.rng,
           gene |-> gene + (IF negative THEN -1 ELSE 1) * m.coeff * u.val,
           signs |-> 1] :
          u \in {gen_f32(r)}})

\* Mutant of mutate_gene: the sign is drawn only for a gene that is mutated.
mutate_gene_lazy_sign(r, m, gene) ==
    Only({IF cd.val
          THEN Only({add_noise(sd.val, m, gene, sd.rng) :
                     sd \in {gen_bool(cd.rng, Half)}})
          ELSE [rng |-> cd.rng, gene |-> gene, signs |-> 0] :
          cd \in {gen_bool(r, m.chance)}})

\* The body of GuassianMutation::mutate's loop, for one gene: the sign is drawn
\* first, for every gene; then gen_bool(chance) decides whether
\* sign * coeff * gen::<f32>() is added.  signs is the number of sign draws.
mutate_gene(r, m, gene) ==
    Only({Only({IF cd.val
                THEN add_noise(sd.val, m, gene, cd.rng)
                ELSE [rng |-> cd.rng, gene |-> gene, signs |-> 1] :
                cd \in {gen_bool(sd.rng, m.chance)}}) :
          sd \in {gen_bool(r, Half)}})

\* The loop over child.iter_mut(): gene i of the child is replaced by its
\* mutated value; acc holds the genes done so far.
RECURSIVE mutate_iter(_, _, _, _, _, _)
mutate_iter(r, m, child, i, acc, signs) ==
    IF i > Len(child)
    THEN [rng |-> r, genes |-> acc, signs |-> signs]
    ELSE Only({mutate_iter(g.rng, m, child, i + 1, Append(acc, g.gene),
                           signs + g.signs) :
               g \in {mutate_gene(r, m, child[i])}})

\* GuassianMutation::mutate: every gene of the child, in order, in place.
mutate(r, m, child) == mutate_iter(r, m, child, 1, <<>>, 0)

\* ----------------------------------------------------------- selection
RECURSIVE Sum(_, _)
Sum(w, k) == IF k = 0 THEN 0 ELSE w[k] + Sum(w, k - 1)

\* The index WeightedIndex::sample gives for the value u drawn: the first one
\* whose cumulative weight exceeds u / RngStates of the total weight.
weighted_index(weights, u) ==
    CHOOSE i \in 1 .. Len(weights) :
        /\ Sum(weights, i) * RngStates > u * Sum(weights, Len(weights))
        /\ \A j \in 1 .. i - 1 :
               Sum(weights, j) * RngStates <= u * Sum(weights, Len(weights))

\* SliceRandom::choose_weighted: WeightedIndex::new over the weights (NoItem
\* for no weight, InvalidWeight for a negative one, AllWeightsZero for a zero
\* total), then one uniform sample.
choose_weighted(r, weights) ==
    IF Len(weights) = 0 THEN [err |-> "NoItem"]
    ELSE IF \E i \in 1 .. Len(weights) : weights[i] < 0 THEN [err |-> "InvalidWeight"]
    ELSE IF Sum(weights, Len(weights)) = 0 THEN [err |-> "AllWeightsZero"]
    ELSE Only({[err |-> "ok", rng |-> q, index |-> weighted_index(weights, q.s)] :
               q \in {next_u(r)}})

\* Mutant of select: an error of choose_weighted is swallowed.
select_unchecked(r, pop) ==
    Only({IF c.err = "ok"
          THEN [status |-> "ok", rng |-> c.rng, index |-> c.index]
          ELSE [status |-> "ok", rng |-> r, index |-> 0] :
          c \in {choose_weighted(r, [i \in 1 .. Len(pop) |-> pop[i].fitness])}})

\* PropSelection::select: choose_weighted(rng, |a| a.fitness()) and
\* .expect("empty population"), which panics on any error of choose_weighted.
select(r, pop) ==
    Only({IF c.err = "ok"
          THEN [status |-> "ok", rng |-> c.rng, index |-> c.index]
          ELSE [status |-> "panic", msg |-> "empty population", err |-> c.err] :
          c \in {choose_weighted(r, [i \in 1 .. Len(pop) |-> pop[i].fitness])}})

\* ----------------------------------------------------------- evolution
\* A step of a slot, with the number of values the generator had given out
\* before it and after it.
Step(name, before, after) == [step |-> name, from |-> before.n, to |-> after.n]

\* crossover, mutate and I::create(child) on the two parents selected, the
\* generator being r.  first and second name the two selections in the order
\* they ran, r0 and r1 the generator before each.
slot_child(r0, first, r1, second, r, pop, a, b, m) ==
    Only({Only({[status |-> "ok", rng |-> mu.rng, child |-> mu.genes,
                 steps |-> <<Step(first, r0, r1),
                             Step(second, r1, r),
                             Step("crossover", r, c.rng),
                             Step("mutate", c.rng, mu.rng),
                             Step("create", mu.rng, mu.rng)>>] :
                mu \in {mutate(c.rng, m, c.genes)}}) :
          c \in {crossover(r, pop[a].genes, pop[b].genes)}})

\* Mutant of evolve_slot: parent_b is selected before parent_a.
evolve_slot_b_first(r, pop, m) ==
    Only({IF sb.status # "ok" THEN sb
          ELSE Only({IF sa.status # "ok" THEN sa
                     ELSE slot_child(r, "select_b", sb.rng, "select_a", sa.rng,
                                     pop, sa.index, sb.index, m) :
                     sa \in {select(sb.rng, pop)}}) :
          sb \in {select(r, pop)}})

\* One output slot of evolve, the closure's body: select parent_a, select
\* parent_b, crossover, mutate, I::create(child).  A panic of select ends it.
evolve_slot(r, pop, m) ==
    Only({IF sa.status # "ok" THEN sa
          ELSE Only({IF sb.status # "ok" THEN sb
                     ELSE slot_child(r, "select_a", sa.rng, "select_b", sb.rng,
                                     pop, sa.index, sb.index, m) :
                     sb \in {select(sa.rng, pop)}}) :
          sa \in {select(r, pop)}})

\* The steps of one slot, tagged with the slot's index (from 0).
SlotLog(slot, steps) ==
    [i \in 1 .. Len(steps) |->
        [slot |-> slot, step |-> steps[i].step, from |-> steps[i].from,
         to |-> steps[i].to]]

\* (0..population.len()).map(|_| ...).collect(): the slots in index order, all
\* drawing from the one generator; no slot at all for an empty population.
\* Slots slot .. n - 1 are left to fill; log lists the steps of the slots
\* filled so far.
RECURSIVE evolve_iter(_, _, _, _, _, _, _)
evolve_iter(r, pop, m, slot, n, children, log) ==
    IF slot >= n
    THEN [status |-> "ok", rng |-> r, children |-> children, log |-> log]
    ELSE Only({IF s.status # "ok" THEN s
               ELSE evolve_iter(s.rng, pop, m, slot + 1, n, Append(children, s.child),
                                log \o SlotLog(slot, s.steps)) :
               s \in {evolve_slot(r, pop, m)}})

\* Mutant of evolve: one slot too few for a population of two or more.
evolve_one_less(r, pop, m) ==
    evolve_iter(r, pop, m, 0, IF Len(pop) > 1 THEN Len(pop) - 1 ELSE Len(pop),
                <<>>, <<>>)

\* Mutant of evolve: the slots draw from the driver's current generator (the
\* variable rng), as an ambient generator would be used, not from the handle
\* passed in.
evolve_ambient(r, pop, m) == evolve_iter(rng, pop, m, 0, Len(pop), <<>>, <<>>)

\* GeneticAlgorithm::evolve
evolve(r, pop, m) == evolve_iter(r, pop, m, 0, Len(pop), <<>>, <<>>)

\* ------------------------------------------------------- the GA driver
\* Fitness is the caller's (Individual::fitness): the driver gives a generation
\* one of these fitness profiles.
Profiles == {"uniform", "ramp", "first", "zero", "negative"}

Fitness(profile, i) ==
    CASE profile = "uniform" -> 1
      [] profile = "ramp" -> i
      [] profile = "first" -> IF i = 1 THEN 1 ELSE 0
      [] profile = "zero" -> 0
      [] profile = "negative" -> IF i = 1 THEN -1 ELSE 1

\* Individual::create and the driver's fitness evaluation of a generation.
Individuals(chromosomes, profile) ==
    [i \in 1 .. Len(chromosomes) |->
        [genes |-> chromosomes[i], fitness |-> Fitness(profile, i)]]

\* The first generation: n chromosomes of length len, all genes distinct.
FirstChromosomes(n, len) ==
    [i \in 1 .. n |-> [j \in 1 .. len |-> (10 * i + j) * RngStates]]

\* GuassianMutation::new(chance, coeff), chance in [0, 1] and coeff >= 0
NoChance == <<0, 1>>
Chances == {NoChance, Half, <<1, 1>>}
Coeffs == {0, 1}
Mutations == [chance : Chances, coeff : Coeffs]

NoCall == [called |-> FALSE]
NoNetwork == [built |-> FALSE]

IdleGA ==
    /\ population = <<>>
    /\ rng = [s |-> 0, n |-> 0]
    /\ mutation = [chance |-> NoChance, coeff |-> 0]
    /\ gen = 0
    /\ status = "running"
    /\ last = NoCall
    /\ rerun = NoCall
IdleOps == op = NoCall
IdleNet == network = NoNetwork /\ thread_rng = 0 /\ netcall = NoCall

Init ==
    /\ \E n \in 0 .. MaxPop, len \in 0 .. MaxLen, p \in Profiles :
           population = Individuals(FirstChromosomes(n, len), p)
    /\ rng \in Seeds
    /\ mutation \in Mutations
    /\ gen = 0
    /\ status = "running"
    /\ last = NoCall
    /\ rerun = NoCall
    /\ IdleOps
    /\ IdleNet

\* The driver advances one generation: evolve, then Individual::create and the
\* fitness of the new generation.  A panic ends the program.
Evolve ==
    /\ status = "running"
    /\ gen < MaxGen
    /\ \E e \in {evolve(rng, population, mutation)} :
           /\ last' = [called |-> TRUE, rngIn |-> rng, popIn |-> population, out |-> e]
           /\ IF e.status = "ok"
              THEN /\ \E p \in Profiles : population' = Individuals(e.children, p)
                   /\ rng' = e.rng
                   /\ gen' = gen + 1
                   /\ status' = "running"
              ELSE /\ status' = "panicked"
                   /\ UNCHANGED <<population, rng, gen>>
    /\ rerun' = NoCall
    /\ UNCHANGED <<mutation, op, network, thread_rng, netcall>>

\* The driver repeats the latest evolve call on the same generator state and
\* the same population, with the same strategies.
Rerun ==
    /\ last.called
    /\ ~rerun.called
    /\ rerun' = [called |-> TRUE, out |-> evolve(last.rngIn, last.popIn, mutation)]
    /\ UNCHANGED <<population, rng, mutation, gen, status, last, op, network,
                   thread_rng, netcall>>

Next == Evolve \/ Rerun

Spec == Init /\ [][Next]_vars

\* ------------------------------------------- the strategies, called directly
GeneValues == {-1, 0, 1}
Chromosomes == UNION {[1 .. l -> GeneValues] : l \in 0 .. MaxLen}
Populations ==
    {Individuals(FirstChromosomes(n, 1), p) : n \in 0 .. MaxPop, p \in Profiles}

InitOps == IdleGA /\ IdleOps /\ IdleNet

\* One direct call per run, on arguments drawn from the sets above and on a
\* generator in any state.
CallCrossover ==
    /\ ~op.called
    /\ \E r \in Seeds, a \in Chromosomes, b \in Chromosomes :
           op' = [called |-> TRUE, name |-> "crossover", rngIn |-> r,
                  parent_a |-> a, parent_b |-> b, out |-> crossover(r, a, b)]
    /\ UNCHANGED <<gaVars, netVars>>

CallMutate ==
    /\ ~op.called
    /\ \E r \in Seeds, m \in Mutations, c \in Chromosomes :
           op' = [called |-> TRUE, name |-> "mutate", rngIn |-> r, m |-> m,
                  child |-> c, out |-> mutate(r, m, c)]
    /\ UNCHANGED <<gaVars, netVars>>

CallSelect ==
    /\ ~op.called
    /\ \E r \in Seeds, pop \in Populations :
           op' = [called |-> TRUE, name |-> "select", rngIn |-> r, pop |-> pop,
                  out |-> select(r, pop)]
    /\ UNCHANGED <<gaVars, netVars>>

NextOps == CallCrossover \/ CallMutate \/ CallSelect

SpecOps == InitOps /\ [][NextOps]_vars

\* ---------------------------------------------------------- the network
\* rng.gen_range(-1.0..=1.0) on thread_rng (an integer generator state t): one
\* draw, mapped onto the three values -1, 0, 1.
gen_range(t) ==
    Only({[rng |-> q, val |-> ((3 * q) \div RngStates) - 1] : q \in {RngNext(t)}})

\* Neuron::random(inputs): the bias first, then one weight per input.
RECURSIVE random_weights(_, _, _)
random_weights(t, k, acc) ==
    IF k = 0 THEN [rng |-> t, weights |-> acc]
    ELSE Only({random_weights(w.rng, k - 1, Append(acc, w.val)) :
               w \in {gen_range(t)}})

Neuron_random(t, inputs) ==
    Only({Only({[rng |-> w.rng, neuron |-> [bias |-> b.val, weights |-> w.weights]] :
                w \in {random_weights(b.rng, inputs, <<>>)}}) :
          b \in {gen_range(t)}})

RECURSIVE random_neurons(_, _, _, _)
random_neurons(t, current, k, acc) ==
    IF k = 0 THEN [rng |-> t, neurons |-> acc]
    ELSE Only({random_neurons(n.rng, current, k - 1, Append(acc, n.neuron)) :
               n \in {Neuron_random(t, current)}})

\* Mutant of Layer_random: the two sizes are swapped.
Layer_random_swapped(t, current, next) == random_neurons(t, next, current, <<>>)

\* Layer::random(current, next): next neurons of current weights each.
Layer_random(t, current, next) == random_neurons(t, current, next, <<>>)

\* Network::new(topology): one layer per window of two adjacent sizes.
RECURSIVE new_layers(_, _, _, _)
new_layers(t, topology, i, acc) ==
    IF i + 1 > Len(topology) THEN [rng |-> t, layers |-> acc]
    ELSE Only({new_layers(l.rng, topology, i + 1, Append(acc, l.neurons)) :
               l \in {Layer_random(t, topology[i], topology[i + 1])}})

Network_new(t, topology) == new_layers(t, topology, 1, <<>>)

\* Neuron::prop: zip(input, weights) stops at the shorter one.
RECURSIVE Dot(_, _, _)
Dot(input, weights, k) ==
    IF k = 0 THEN 0 ELSE input[k] * weights[k] + Dot(input, weights, k - 1)

Neuron_prop(neuron, input) ==
    Only({IF neuron.bias + output > 0 THEN neuron.bias + output ELSE 0 :
          output \in {Dot(input, neuron.weights,
                          Min(Len(input), Len(neuron.weights)))}})

\* Layer::prop: one output per neuron.
Layer_prop(neurons, inputs) ==
    [k \in 1 .. Len(neurons) |-> Neuron_prop(neurons[k], inputs)]

\* Network::prop: the inputs threaded through the layers in order.
RECURSIVE prop_from(_, _, _)
prop_from(layers, i, inputs) ==
    IF i > Len(layers) THEN inputs
    ELSE Only({prop_from(layers, i + 1, out) :
               out \in {Layer_prop(layers[i], inputs)}})

Network_prop(layers, inputs) == prop_from(layers, 1, inputs)

Topologies == UNION {[1 .. l -> 0 .. MaxWidth] : l \in 0 .. MaxLayers + 1}
InputValues == {-1, 1}
Inputs == UNION {[1 .. l -> InputValues] : l \in 0 .. MaxWidth}

InitNet ==
    /\ IdleGA
    /\ IdleOps
    /\ network = NoNetwork
    /\ thread_rng \in 0 .. RngStates - 1
    /\ netcall = NoCall

\* The network is built once, with thread_rng in whatever state it is in.
NetworkNew ==
    /\ ~network.built
    /\ \E topology \in Topologies :
           \E nw \in {Network_new(thread_rng, topology)} :
               /\ network' = [built |-> TRUE, topology |-> topology, layers |-> nw.layers]
               /\ thread_rng' = nw.rng
    /\ netcall' = NoCall
    /\ UNCHANGED <<gaVars, op>>

NetworkProp ==
    /\ network.built
    /\ \E inputs \in Inputs :
           netcall' = [called |-> TRUE, inputs |-> inputs,
                       out |-> Network_prop(network.layers, inputs)]
    /\ UNCHANGED <<gaVars, op, network, thread_rng>>

NextNet == NetworkNew \/ NetworkProp

SpecNet == InitNet /\ [][NextNet]_vars

\* ================================================================ claims
\* PropSelection::select accepts a population: it is not empty, no fitness is
\* negative and some fitness is positive.
SelectionAccepts(pop) ==
    /\ Len(pop) > 0
    /\ \A i \in 1 .. Len(pop) : pop[i].fitness >= 0
    /\ \E i \in 1 .. Len(pop) : pop[i].fitness > 0

\* C1: for every non-empty population whose fitness values selection accepts,
\* evolve returns, and returns exactly as many individuals as it was given.
C1_EvolveKeepsSize ==
    (last.called /\ SelectionAccepts(last.popIn))
        => (last.out.status = "ok" /\ Len(last.out.children) = Len(last.popIn))

C1_Witness ==
    /\ last.called
    /\ SelectionAccepts(last.popIn)
    /\ Len(last.popIn) = 2
    /\ Len(last.out.children) = 2
    /\ Len(population) = 2

\* C2 (the claim as stated): evolve called with an empty population fails, it
\* does not return.
C2_EmptyPopulationFails ==
    (last.called /\ Len(last.popIn) = 0) => last.out.status = "panic"

\* C3: for equal-length parents the child of crossover has the parents' length
\* and, at every position, parent_a's gene or parent_b's gene at that position.
C3_CrossoverChild ==
    (op.called /\ op.name = "crossover" /\ Len(op.parent_a) = Len(op.parent_b))
        => /\ Len(op.out.genes) = Len(op.parent_a)
           /\ \A i \in 1 .. Len(op.out.genes) :
                  op.out.genes[i] \in {op.parent_a[i], op.parent_b[i]}

C3_Witness ==
    /\ op.called
    /\ op.name = "crossover"
    /\ Len(op.parent_a) = 2
    /\ Len(op.parent_b) = 2
    /\ op.parent_a[1] # op.parent_b[1]
    /\ op.parent_a[2] # op.parent_b[2]
    /\ op.out.genes = <<op.parent_a[1], op.parent_b[2]>>

C5_SelectEmptyPanics ==
    (op.called /\ op.name = "select" /\ Len(op.pop) = 0)
        => (op.out.status = "panic" /\ op.out.msg = "empty population")

C5_Witness ==
    /\ op.called
    /\ op.name = "select"
    /\ op.pop = <<>>
    /\ op.rngIn.s = 5
    /\ op.out.status = "panic"

\* C6: mutate with chance = 0 leaves every gene unchanged, and still draws the
\* sign once per gene, so that the generator has advanced by at least one
\* value per gene.
C6_NoChanceKeepsGenes ==
    (op.called /\ op.name = "mutate" /\ op.m.chance = NoChance)
        => /\ op.out.genes = op.child
           /\ op.out.signs = Len(op.child)
           /\ op.out.rng.n >= op.rngIn.n + Len(op.child)

C6_Witness ==
    /\ op.called
    /\ op.name = "mutate"
    /\ op.m.chance = NoChance
    /\ op.m.coeff = 1
    /\ Len(op.child) = 2
    /\ op.out.genes = op.child
    /\ op.out.rng.n > op.rngIn.n

\* C7: for a topology of length >= 2 and inputs of length topology[0], prop on
\* the network new(topology) built returns topology[last] values.
C7_PropOutputLength ==
    (/\ netcall.called
     /\ Len(network.topology) >= 2
     /\ Len(netcall.inputs) = network.topology[1])
        => Len(netcall.out) = network.topology[Len(network.topology)]

C7_Witness ==
    /\ netcall.called
    /\ network.topology = <<2, 1, 2>>
    /\ Len(netcall.inputs) = 2
    /\ Len(netcall.out) = 2

\* C8: when every chromosome of a non-empty population has length L, every
\* chromosome of the next generation has length L; by induction the length
\* stays L over any number of evolve calls.
C8_GenomeLengthKept ==
    [][\A L \in 0 .. MaxLen :
          (/\ Len(population) > 0
           /\ \A i \in 1 .. Len(population) : Len(population[i].genes) = L)
              => \A i \in 1 .. Len(population') : Len(population'[i].genes) = L]_vars

C8_Witness ==
    /\ gen = 2
    /\ Len(population) = 2
    /\ \A i \in 1 .. 2 : Len(population[i].genes) = 2
    /\ population[1].genes # population[2].genes

\* C9 (the claim as stated): no operation draws from an ambient generator, so
\* no step ever changes thread_rng.
C9_NoAmbientDraw ==
    [][thread_rng' = thread_rng]_vars

\* C10: evolve fills the slots in index order on one generator; within a slot
\* the steps are select parent A, select parent B, crossover, mutate, create;
\* each step starts on the generator where the step before it left it, so
\* every draw of a slot comes before every draw of the next slot.
StepOrder == <<"select_a", "select_b", "crossover", "mutate", "create">>

C10_SlotOrder ==
    (last.called /\ last.out.status = "ok")
        => LET log == last.out.log
           IN  /\ Len(log) = Len(StepOrder) * Len(last.popIn)
               /\ \A i \in 1 .. Len(log) :
                      /\ log[i].slot = (i - 1) \div Len(StepOrder)
                      /\ log[i].step = StepOrder[((i - 1) % Len(StepOrder)) + 1]
                      /\ log[i].from <= log[i].to
               /\ Len(log) > 0 => log[1].from = last.rngIn.n
               /\ \A i \in 1 .. Len(log) - 1 : log[i].to = log[i + 1].from
               /\ Len(log) > 0 => log[Len(log)].to = last.out.rng.n

C10_Witness ==
    /\ last.called
    /\ last.out.status = "ok"
    /\ Len(last.popIn) = 2
    /\ Len(last.popIn[1].genes) = 2
    /\ \A i \in 1 .. 4 : last.out.log[i].from < last.out.log[i].to
    /\ \A i \in 6 .. 9 : last.out.log[i].from < last.out.log[i].to
    /\ last.out.log[5].to = last.out.log[6].from

====
